---- MODULE Spec2Model ----
(***************************************************************************)
(* A model of the generation-batch orchestration engine of                 *)
(* personal-nano-banana (backend/src/services):                            *)
(*                                                                         *)
(*   - GenerationService (one prediction per image): startGeneration,      *)
(*     pollForCompletion, handleJobSuccess, handleJobFailure,              *)
(*     checkBatchCompletion, getBatchProgress, cancelGeneration;           *)
(*   - ReferenceImageService: processReferenceImage,                       *)
(*     ensureExistingReferenceImages, isReplicateUploadValid.              *)
(*                                                                         *)
(* The service runs on a single-threaded event loop: code between two      *)
(* awaits of real I/O (a remote call, a timer, a download) runs            *)
(* atomically, so every action below is one such stretch of code.  One     *)
(* batch row is modelled; prediction ids are the integers the remote       *)
(* hands out, one per accepted submission.                                 *)
(***************************************************************************)
EXTENDS Integers, Sequences, FiniteSets, TLC

(***************************************************************************)
(* Bounds of the model.                                                    *)
(***************************************************************************)
MaxBatchSize == 2

Pids == 1..MaxBatchSize

(***************************************************************************)
(* Texts of the error messages the code writes.                            *)
(***************************************************************************)
NoError == "null"
AllFailedMessage == "All image generations failed"
CanceledMessage == "Generation canceled by user"
NotFoundMessage == "Batch not found"
NotPendingMessage == "Batch is not in pending state"
SubmitErrorMessage == "Failed to start image generation"
LookupErrorMessage == "Reference image lookup failed"

RemoteStatuses == {"starting", "processing", "succeeded", "failed", "canceled", "aborted"}
RemoteFailureStatuses == {"failed", "canceled", "aborted"}
RemoteIntermediateStatuses == {"starting", "processing"}

VARIABLES
    batch,            \* the batches row: [status, batch_size, error_message]
    predictionJobs,   \* the prediction job rows: pid -> [imageIndex, status]
    activeJobs,       \* GenerationService.activeJobs (its key set)
    startPc,          \* where the one accepted startGeneration call stands
    startI,           \* its loop variable i
    startJobs,        \* its local array jobs (the prediction ids)
    pollPc,           \* pid -> where pollForCompletion(pid) stands
    cancelPc,         \* where the cancelGeneration call in flight stands
    cancelQueue,      \* the jobs of activeBatchJobs it has not processed yet
    cancelSnapshot,   \* activeBatchJobs as filtered when the call began
    images,           \* pids whose generated image has been stored
    aggCalls,         \* number of checkBatchCompletion invocations so far
    response,         \* what the batch-creation route answered to the last request it refused
    routePc           \* where the request that created the batch stands in the route

genVars == <<batch, predictionJobs, activeJobs, startPc, startI, startJobs, pollPc,
             cancelPc, cancelQueue, cancelSnapshot, images, aggCalls, response, routePc>>

NoJob == [imageIndex |-> -1, status |-> "none"]
NoBatch == [status |-> "absent", batch_size |-> 0, error_message |-> NoError]

JobStatuses == RemoteStatuses \cup {"timed_out"}

(***************************************************************************)
(* The persistence layer.  updateBatchStatus is database.ts; the           *)
(* prediction-job table's methods are called by the service but their      *)
(* file is not among the sources, so they follow the data model: a row     *)
(* per submitted job, created 'starting', its status overwritten by each   *)
(* update, and a count of the batch's rows per status.                     *)
(***************************************************************************)
UpdateBatchStatus(b, status, errorMessage) ==
    IF b.status = "absent" THEN b
    ELSE [b EXCEPT !.status = status, !.error_message = errorMessage]

CreatePredictionJob(jobs, pid, i) ==
    [jobs EXCEPT ![pid] = [imageIndex |-> i, status |-> "starting"]]

UpdatePredictionJobStatus(jobs, pid, status) ==
    IF jobs[pid] = NoJob THEN jobs ELSE [jobs EXCEPT ![pid].status = status]

GetBatchJobProgress(jobs) ==
    [s \in JobStatuses |-> Cardinality({p \in Pids : jobs[p].status = s})]

(***************************************************************************)
(* getBatchProgress: 'succeeded' rows are completed, 'failed' and          *)
(* 'canceled' rows are failed, every other status counts as processing.    *)
(***************************************************************************)
RECURSIVE SumCounts(_, _)
SumCounts(counts, S) ==
    IF S = {} THEN 0
    ELSE LET s == CHOOSE x \in S : TRUE IN counts[s] + SumCounts(counts, S \ {s})

CountsAsCompleted(status) == status = "succeeded"

\* A plausible slip: everything that has not succeeded counts as failed.
CountsAsFailedMutant(status) == status # "succeeded"

CountsAsFailed(status) == status = "failed" \/ status = "canceled"

GetBatchProgress(jobs) ==
    LET counts == GetBatchJobProgress(jobs)
        done == {s \in JobStatuses : CountsAsCompleted(s)}
        bad == {s \in JobStatuses : ~CountsAsCompleted(s) /\ CountsAsFailed(s)}
        rest == (JobStatuses \ done) \ bad
    IN  [totalImages |-> SumCounts(counts, JobStatuses),
         completed |-> SumCounts(counts, done),
         failed |-> SumCounts(counts, bad),
         processing |-> SumCounts(counts, rest)]

(***************************************************************************)
(* checkBatchCompletion: the batch row after the aggregator has run over   *)
(* the job rows `jobs`.                                                    *)
(***************************************************************************)
CheckBatchCompletion(b, jobs) ==
    LET progress == GetBatchProgress(jobs) IN
    IF progress.processing = 0
    THEN IF progress.completed > 0
         THEN UpdateBatchStatus(b, "completed", NoError)
         ELSE UpdateBatchStatus(b, "failed", AllFailedMessage)
    ELSE b

(***************************************************************************)
(* The finally block of pollForCompletion: the job leaves activeJobs and   *)
(* the aggregator runs over the job rows as they are then.                 *)
(***************************************************************************)
FinishPollMutant(pid, jobs) ==
    /\ activeJobs' = activeJobs
    /\ pollPc' = [pollPc EXCEPT ![pid] = "done"]
    /\ batch' = CheckBatchCompletion(batch, jobs)
    /\ aggCalls' = aggCalls + 1

FinishPoll(pid, jobs) ==
    /\ activeJobs' = activeJobs \ {pid}
    /\ pollPc' = [pollPc EXCEPT ![pid] = "done"]
    /\ batch' = CheckBatchCompletion(batch, jobs)
    /\ aggCalls' = aggCalls + 1

GenInit ==
    /\ batch = NoBatch
    /\ predictionJobs = [p \in Pids |-> NoJob]
    /\ activeJobs = {}
    /\ startPc = "idle"
    /\ startI = 0
    /\ startJobs = {}
    /\ pollPc = [p \in Pids |-> "none"]
    /\ cancelPc = "idle"
    /\ cancelQueue = <<>>
    /\ cancelSnapshot = {}
    /\ images = {}
    /\ aggCalls = 0
    /\ response = "none"
    /\ routePc = "idle"

(***************************************************************************)
(* The batch-creation route.  The batchSize of a request is a number       *)
(* (after coercion), written here as whole + half/2, so that sizes that    *)
(* are no integers are among the inputs.                                   *)
(***************************************************************************)
MinAllowedBatchSize == 1
MaxAllowedBatchSize == 8

BatchSizeInputs ==
    [whole : (-1..MaxBatchSize) \cup {MaxAllowedBatchSize + 1}, half : {0, 1}]
        \cup {[whole |-> MaxAllowedBatchSize, half |-> 1]}

\* A plausible slip: the size is not checked to be an integer.
ValidBatchSizeMutant(v) ==
    v.whole >= MinAllowedBatchSize /\ v.whole <= MaxAllowedBatchSize

\* CreateBatchSchema: z.coerce.number().int().min(1).max(8)
ValidBatchSize(v) ==
    /\ v.half = 0
    /\ v.whole >= MinAllowedBatchSize
    /\ v.whole <= MaxAllowedBatchSize

\* The request passes validation: the route creates the batch row, pending,
\* and goes on to process the request's reference images.
CreateBatch(v) ==
    /\ ValidBatchSize(v)
    /\ v.whole <= MaxBatchSize
    /\ batch = NoBatch
    /\ batch' = [status |-> "pending", batch_size |-> v.whole, error_message |-> NoError]
    /\ routePc' = "references"
    /\ UNCHANGED <<predictionJobs, activeJobs, startPc, startI, startJobs, pollPc, cancelPc, cancelQueue, cancelSnapshot, images, aggCalls, response>>

\* Processing the reference images throws (an upload fails, a file cannot
\* be read, the list of existing ids is no JSON): the route's outer catch
\* block answers 500.  startGeneration is not called and the batch row is
\* not touched.
ReferenceProcessingThrow ==
    /\ routePc = "references"
    /\ routePc' = "serverError"
    /\ UNCHANGED <<batch, predictionJobs, activeJobs, startPc, startI, startJobs, pollPc, cancelPc, cancelQueue, cancelSnapshot, images, aggCalls, response>>

\* The request fails validation: the schema throws and the route answers
\* 400 before it has created anything.
CreateBatchRejected(v) ==
    /\ ~ValidBatchSize(v)
    /\ response' = "validationError"
    /\ UNCHANGED <<batch, predictionJobs, activeJobs, startPc, startI, startJobs, pollPc, cancelPc, cancelQueue, cancelSnapshot, images, aggCalls, routePc>>

(***************************************************************************)
(* startGeneration.                                                        *)
(***************************************************************************)
\* A plausible slip: the catch block leaves the submitted jobs in activeJobs.
StartFailMutant(errorMessage, pc) ==
    /\ batch' = UpdateBatchStatus(batch, "failed", errorMessage)
    /\ activeJobs' = activeJobs
    /\ startPc' = pc

\* The catch block: the batch fails with the message, the jobs submitted
\* so far leave activeJobs (their rows stay as they are), the error is rethrown.
StartFail(errorMessage, pc) ==
    /\ batch' = UpdateBatchStatus(batch, "failed", errorMessage)
    /\ activeJobs' = activeJobs \ startJobs
    /\ startPc' = pc

\* A plausible slip: only the batch's existence is checked.
StartPreconditionMutant(b) == b.status # "absent"

\* The checks startGeneration makes before anything else: the batch exists
\* and is pending.
StartPrecondition(b) == b.status # "absent" /\ b.status = "pending"

\* The message of the error thrown when the checks fail.
RejectionMessage(b) == IF b.status = "absent" THEN NotFoundMessage ELSE NotPendingMessage

\* Where the route stands once startGeneration has been invoked.
RouteAfterStart(pc) == IF pc = "references" THEN "started" ELSE pc

\* The batch is pending: it becomes processing and the call awaits the
\* reference image URLs.  The route invokes startGeneration when the
\* reference images are processed; after it has answered 500 nothing does.
StartGeneration ==
    /\ routePc # "serverError"
    /\ StartPrecondition(batch)
    /\ batch' = UpdateBatchStatus(batch, "processing", NoError)
    /\ startPc' = "lookup"
    /\ routePc' = RouteAfterStart(routePc)
    /\ UNCHANGED <<predictionJobs, activeJobs, startI, startJobs, pollPc, cancelPc, cancelQueue, cancelSnapshot, images, aggCalls, response>>

\* The batch is missing or not pending: the call throws before anything is
\* submitted, and its catch block writes 'failed' (on a missing row the
\* UPDATE matches nothing).
StartGenerationRejected ==
    /\ ~StartPrecondition(batch)
    /\ batch' = UpdateBatchStatus(batch, "failed", RejectionMessage(batch))
    /\ UNCHANGED <<predictionJobs, activeJobs, startPc, startI, startJobs, pollPc, cancelPc, cancelQueue, cancelSnapshot, images, aggCalls, response, routePc>>

ReferenceUrlsReturn ==
    /\ startPc = "lookup"
    /\ startPc' = "submit"
    /\ startI' = 0
    /\ UNCHANGED <<batch, predictionJobs, activeJobs, startJobs, pollPc, cancelPc, cancelQueue, cancelSnapshot, images, aggCalls, response, routePc>>

ReferenceUrlsThrow ==
    /\ startPc = "lookup"
    /\ StartFail(LookupErrorMessage, "lookupFailed")
    /\ UNCHANGED <<predictionJobs, startI, startJobs, pollPc, cancelPc, cancelQueue, cancelSnapshot, images, aggCalls, response, routePc>>

\* The loop variable after one pass of the submission loop.
NextIndex(i) == i + 1

\* A plausible slip: every job is recorded under image index 0.
JobIndexMutant(i) == 0

\* The image index recorded for the job submitted in pass i.
JobIndex(i) == i

\* pollForCompletion up to its first await: without an activeJobs entry it
\* returns at once, otherwise it requests the job's status.
PollEntry(pid, active) == IF pid \in active THEN "fetch" ELSE "nojob"

\* generateImages returned a prediction id: the row is created, the job is
\* tracked, and either the next submission is awaited or, after the last
\* one, every job's poll loop is started.
SubmitReturn ==
    /\ startPc = "submit"
    /\ LET pid == Cardinality(startJobs) + 1
           jobsNow == startJobs \cup {pid}
           activeNow == activeJobs \cup {pid}
       IN  /\ pid \in Pids
           /\ predictionJobs' = CreatePredictionJob(predictionJobs, pid, JobIndex(startI))
           /\ activeJobs' = activeNow
           /\ startJobs' = jobsNow
           /\ startI' = NextIndex(startI)
           /\ IF NextIndex(startI) < batch.batch_size
              THEN /\ startPc' = "submit"
                   /\ pollPc' = pollPc
              ELSE /\ startPc' = "done"
                   /\ pollPc' = [p \in Pids |->
                                    IF p \in jobsNow THEN PollEntry(p, activeNow)
                                    ELSE pollPc[p]]
    /\ UNCHANGED <<batch, cancelPc, cancelQueue, cancelSnapshot, images, aggCalls, response, routePc>>

SubmitThrow ==
    /\ startPc = "submit"
    /\ StartFail(SubmitErrorMessage, "submitFailed")
    /\ UNCHANGED <<predictionJobs, startI, startJobs, pollPc, cancelPc, cancelQueue, cancelSnapshot, images, aggCalls, response, routePc>>

(***************************************************************************)
(* pollForCompletion, one loop per job.  Each action begins where an       *)
(* await of the loop resolves: the status request, the poll interval's     *)
(* timer, the ingestion of the output.  The loop never looks at            *)
(* activeJobs again after its entry.                                       *)
(***************************************************************************)
\* The remote reports starting or processing: the row takes that status and
\* the loop sleeps one poll interval.
PollIntermediate(pid, status) ==
    /\ pollPc[pid] = "fetch"
    /\ status \in RemoteIntermediateStatuses
    /\ predictionJobs' = UpdatePredictionJobStatus(predictionJobs, pid, status)
    /\ pollPc' = [pollPc EXCEPT ![pid] = "sleep"]
    /\ UNCHANGED <<batch, activeJobs, startPc, startI, startJobs, cancelPc,
                   cancelQueue, cancelSnapshot, images, aggCalls, response, routePc>>

\* The timer fired and Date.now() - startTime is still below maxWaitTime:
\* the status is requested again.  How long the status requests took is
\* not the loop's to decide, so at each firing the budget may be spent.
PollContinue(pid) ==
    /\ pollPc[pid] = "sleep"
    /\ pollPc' = [pollPc EXCEPT ![pid] = "fetch"]
    /\ UNCHANGED <<batch, predictionJobs, activeJobs, startPc, startI, startJobs, cancelPc,
                   cancelQueue, cancelSnapshot, images, aggCalls, response, routePc>>

\* handleJobFailure: the message is logged; no row is written.
HandleJobFailure(jobs, pid) == jobs

\* The timer fired with the budget spent: handleJobFailure('Generation
\* timed out'), then the finally block.
PollTimeout(pid) ==
    /\ pollPc[pid] = "sleep"
    /\ predictionJobs' = HandleJobFailure(predictionJobs, pid)
    /\ FinishPoll(pid, predictionJobs')
    /\ UNCHANGED <<startPc, startI, startJobs, cancelPc, cancelQueue, cancelSnapshot,
                   images, response, routePc>>

\* The remote reports succeeded with an output URL: the row is written
\* 'succeeded' and the image's download and storage are awaited.
PollSucceeded(pid) ==
    /\ pollPc[pid] = "fetch"
    /\ predictionJobs' = UpdatePredictionJobStatus(predictionJobs, pid, "succeeded")
    /\ pollPc' = [pollPc EXCEPT ![pid] = "ingest"]
    /\ UNCHANGED <<batch, activeJobs, startPc, startI, startJobs, cancelPc,
                   cancelQueue, cancelSnapshot, images, aggCalls, response, routePc>>

\* The remote reports succeeded without a usable output URL: the row is
\* written 'succeeded', handleJobSuccess throws and catches, and the loop ends.
PollSucceededNoUrl(pid) ==
    /\ pollPc[pid] = "fetch"
    /\ predictionJobs' = HandleJobFailure(
                            UpdatePredictionJobStatus(predictionJobs, pid, "succeeded"), pid)
    /\ FinishPoll(pid, predictionJobs')
    /\ UNCHANGED <<startPc, startI, startJobs, cancelPc, cancelQueue,
                   cancelSnapshot, images, response, routePc>>

\* processGeneratedImages returned; it swallows a failed download, so the
\* image is stored or it is not, and the loop ends either way.
IngestReturn(pid, stored) ==
    /\ pollPc[pid] = "ingest"
    /\ images' = IF stored THEN images \cup {pid} ELSE images
    /\ FinishPoll(pid, predictionJobs)
    /\ UNCHANGED <<predictionJobs, startPc, startI, startJobs, cancelPc,
                   cancelQueue, cancelSnapshot, response, routePc>>

\* The remote reports failed, canceled or aborted: the row takes that
\* status, handleJobFailure, then the finally block.
PollFailure(pid, status) ==
    /\ pollPc[pid] = "fetch"
    /\ status \in RemoteFailureStatuses
    /\ predictionJobs' = HandleJobFailure(
                            UpdatePredictionJobStatus(predictionJobs, pid, status), pid)
    /\ FinishPoll(pid, predictionJobs')
    /\ UNCHANGED <<startPc, startI, startJobs, cancelPc, cancelQueue,
                   cancelSnapshot, images, response, routePc>>

\* The status request throws: the catch block calls handleJobFailure, then
\* the finally block.
PollThrow(pid) ==
    /\ pollPc[pid] = "fetch"
    /\ predictionJobs' = HandleJobFailure(predictionJobs, pid)
    /\ FinishPoll(pid, predictionJobs')
    /\ UNCHANGED <<startPc, startI, startJobs, cancelPc, cancelQueue,
                   cancelSnapshot, images, response, routePc>>

(***************************************************************************)
(* cancelGeneration.  One call is in flight at a time.                     *)
(***************************************************************************)
RECURSIVE InOrder(_)
InOrder(S) ==
    IF S = {} THEN <<>>
    ELSE LET m == CHOOSE x \in S : \A y \in S : x <= y IN <<m>> \o InOrder(S \ {m})

CancelIdle == cancelPc \in {"idle", "rejected"}

\* A plausible slip: the check for an empty list is missing.
HasActiveJobsMutant(active) == TRUE

\* activeBatchJobs.length > 0
HasActiveJobs(active) == Cardinality(active) > 0

\* The batch has active jobs: they are listed (in the map's insertion
\* order) and the remote cancel of the first is awaited.
CancelGeneration ==
    /\ CancelIdle
    /\ HasActiveJobs(activeJobs)
    /\ cancelSnapshot' = activeJobs
    /\ cancelQueue' = InOrder(activeJobs)
    /\ cancelPc' = "cancel"
    /\ UNCHANGED <<batch, predictionJobs, activeJobs, startPc, startI, startJobs, pollPc,
                   images, aggCalls, response, routePc>>

\* No job of the batch is active: the call throws 'No active generation found'.
CancelGenerationRejected ==
    /\ CancelIdle
    /\ cancelPc # "rejected"
    /\ ~HasActiveJobs(activeJobs)
    /\ cancelPc' = "rejected"
    /\ cancelSnapshot' = {}
    /\ cancelQueue' = <<>>
    /\ UNCHANGED <<batch, predictionJobs, activeJobs, startPc, startI, startJobs, pollPc,
                   images, aggCalls, response, routePc>>

\* The remote cancel of the first listed job returned: its row is written
\* 'canceled' and it leaves activeJobs; after the last one the batch is
\* written 'failed'.
CancelReturn ==
    /\ cancelPc = "cancel"
    /\ LET pid == Head(cancelQueue) IN
       /\ predictionJobs' = UpdatePredictionJobStatus(predictionJobs, pid, "canceled")
       /\ activeJobs' = activeJobs \ {pid}
    /\ cancelQueue' = Tail(cancelQueue)
    /\ IF Tail(cancelQueue) = <<>>
       THEN /\ batch' = UpdateBatchStatus(batch, "failed", CanceledMessage)
            /\ cancelPc' = "idle"
            /\ cancelSnapshot' = {}
       ELSE /\ batch' = batch
            /\ cancelPc' = "cancel"
            /\ cancelSnapshot' = cancelSnapshot
    /\ UNCHANGED <<startPc, startI, startJobs, pollPc, images, aggCalls, response, routePc>>

\* The remote cancel throws: the catch block logs and rethrows; the jobs
\* not yet reached and the batch row stay as they are.
CancelThrow ==
    /\ cancelPc = "cancel"
    /\ cancelPc' = "idle"
    /\ cancelQueue' = <<>>
    /\ cancelSnapshot' = {}
    /\ UNCHANGED <<batch, predictionJobs, activeJobs, startPc, startI, startJobs, pollPc,
                   images, aggCalls, response, routePc>>

GenNext ==
    \/ \E v \in BatchSizeInputs : CreateBatch(v)
    \/ \E v \in BatchSizeInputs : CreateBatchRejected(v)
    \/ ReferenceProcessingThrow
    \/ StartGeneration
    \/ StartGenerationRejected
    \/ ReferenceUrlsReturn
    \/ ReferenceUrlsThrow
    \/ SubmitReturn
    \/ SubmitThrow
    \/ \E pid \in Pids, status \in RemoteStatuses : PollIntermediate(pid, status)
    \/ \E pid \in Pids : PollContinue(pid)
    \/ \E pid \in Pids : PollTimeout(pid)
    \/ \E pid \in Pids : PollSucceeded(pid)
    \/ \E pid \in Pids : PollSucceededNoUrl(pid)
    \/ \E pid \in Pids, stored \in BOOLEAN : IngestReturn(pid, stored)
    \/ \E pid \in Pids, status \in RemoteStatuses : PollFailure(pid, status)
    \/ \E pid \in Pids : PollThrow(pid)
    \/ CancelGeneration
    \/ CancelGenerationRejected
    \/ CancelReturn
    \/ CancelThrow

(***************************************************************************)
(* ReferenceImageService.  Time is counted in whole hours.  A caller is a  *)
(* request of the route; each stores its uploads under its own filename.   *)
(***************************************************************************)
MaxTicks == 3

\* The hours at which the clock is read: when the first upload is made, and
\* around the time that upload comes within the grace margin of its expiry.
ClockReadings == <<0, 19, 20, 21, 22>>

Callers == {1, 2}
\* The callers whose requests also reuse reference images of earlier batches.
EnsureCallers == {1}
Contents == {"a", "b"}

\* hoursUntilExpiry > 4
GraceHours == 4
\* An upload expires 24 hours after it was made.
ValidityHours == 24

NoId == 0
NoUpload == [reference_image_id |-> NoId, replicate_expires_at |-> 0]

VARIABLES
    now,                      \* the clock, in hours
    referenceImages,          \* the reference_images rows, in id order
    uploadedReferenceImages,  \* the current uploaded_reference_images row of each reference image
    call,                     \* caller -> the call of the service its request is in
    returned                  \* what the step just taken has returned to a caller, if it did

refVars == <<now, referenceImages, uploadedReferenceImages, call, returned>>

vars == <<genVars, refVars>>

\* calculateFileHash: SHA-256 maps distinct contents to distinct digests.
CalculateFileHash(content) == <<"sha256", content>>

\* The filename a caller stores its upload under.
FilenameOf(c) == <<"upload", c>>

(***************************************************************************)
(* The reference image tables.  Their methods are called by the service    *)
(* but their file is not among the sources; they follow the documented     *)
(* schema: ids are assigned in insertion order, a reference image's        *)
(* current upload record is the one stored last.                           *)
(***************************************************************************)
GetReferenceImageByHash(rows, hash) ==
    IF \E i \in 1..Len(rows) : rows[i].file_hash_sha256 = hash
    THEN CHOOSE i \in 1..Len(rows) : rows[i].file_hash_sha256 = hash
    ELSE NoId

CreateReferenceImage(rows, filename, hash) ==
    Append(rows, [filename |-> filename, file_hash_sha256 |-> hash])

GetReferenceImage(rows, id) == IF id \in 1..Len(rows) THEN id ELSE NoId

GetUploadedReferenceImage(uploads, id) ==
    IF \E u \in uploads : u.reference_image_id = id
    THEN CHOOSE u \in uploads : u.reference_image_id = id
    ELSE NoUpload

CreateUploadedReferenceImage(uploads, id, expiresAt) ==
    {u \in uploads : u.reference_image_id # id}
        \cup {[reference_image_id |-> id, replicate_expires_at |-> expiresAt]}

(***************************************************************************)
(* isReplicateUploadValid, at clock reading t.                             *)
(***************************************************************************)
HoursUntilExpiry(expiresAt, t) == expiresAt - t

\* A plausible slip: an upload with exactly the grace margin left counts as valid.
IsReplicateUploadValidMutant(expiresAt, t) == HoursUntilExpiry(expiresAt, t) >= GraceHours

IsReplicateUploadValid(expiresAt, t) == HoursUntilExpiry(expiresAt, t) > GraceHours

\* uploadedRef && isReplicateUploadValid(uploadedRef.replicate_expires_at)
HasValidUpload(uploadedRef, t) ==
    uploadedRef # NoUpload /\ IsReplicateUploadValid(uploadedRef.replicate_expires_at, t)

\* A plausible slip: the flag is set whenever the call uploads.
IsExpiredFlagMutant(uploadedRef) == TRUE

\* isExpired = !!uploadedRef, in the branch that uploads.
IsExpiredFlag(uploadedRef) == uploadedRef # NoUpload

\* A plausible slip: a row is created without looking the hash up first.
ResolveReferenceImageMutant(rows, filename, hash) ==
    [rows |-> CreateReferenceImage(rows, filename, hash), id |-> Len(rows) + 1]

\* processReferenceImage, lookup by hash and creation of a missing row; no
\* await lies between the two.
ResolveReferenceImage(rows, filename, hash) ==
    LET found == GetReferenceImageByHash(rows, hash) IN
    IF found # NoId THEN [rows |-> rows, id |-> found]
    ELSE [rows |-> CreateReferenceImage(rows, filename, hash), id |-> Len(rows) + 1]

\* What a call remembers of the upload record it looked up: whether there
\* was one, and the hours it had left.
Lookup(uploadedRef, t) ==
    [hadRecord |-> uploadedRef # NoUpload,
     hoursLeft |-> IF uploadedRef = NoUpload THEN 0
                   ELSE HoursUntilExpiry(uploadedRef.replicate_expires_at, t)]

NoLookup == [hadRecord |-> FALSE, hoursLeft |-> 0]

\* A ReferenceImageResult, with what led to it: whether the call uploaded,
\* and the upload record it had looked up.
Result(id, isExpired, uploaded, seen) ==
    [referenceImageId |-> id, isExpired |-> isExpired, uploaded |-> uploaded, seen |-> seen]

IdleCall == [pc |-> "idle", content |-> "none", ids |-> <<>>, idx |-> 0, results |-> <<>>,
             skipped |-> {},
             referenceImageId |-> NoId, isExpired |-> FALSE, seen |-> NoLookup]

NoReturn == [caller |-> 0, op |-> "none", content |-> "none", ids |-> <<>>,
             results |-> <<>>, skipped |-> {}]

RefInit ==
    /\ now = ClockReadings[1]
    /\ referenceImages = <<>>
    /\ uploadedReferenceImages = {}
    /\ call = [c \in Callers |-> IdleCall]
    /\ returned = NoReturn

\* Time passes.
Tick ==
    /\ \E i \in 1..MaxTicks :
        /\ i < Len(ClockReadings)
        /\ now = ClockReadings[i]
        /\ now' = ClockReadings[i + 1]
    /\ returned' = NoReturn
    /\ UNCHANGED <<referenceImages, uploadedReferenceImages, call>>

(***************************************************************************)
(* processReferenceImage.                                                  *)
(***************************************************************************)
ProcessReturn(c, content, result) ==
    [NoReturn EXCEPT !.caller = c, !.op = "processReferenceImage", !.content = content,
                     !.results = <<result>>]

\* The call up to its await: the reference image is found or created; a
\* valid upload is reused and the call returns, otherwise the upload
\* request is sent.
ProcessReferenceImage(c, content) ==
    /\ call[c].pc = "idle"
    /\ LET fileHash == CalculateFileHash(content)
           resolved == ResolveReferenceImage(referenceImages, FilenameOf(c), fileHash)
           uploadedRef == GetUploadedReferenceImage(uploadedReferenceImages, resolved.id)
       IN  /\ referenceImages' = resolved.rows
           /\ IF HasValidUpload(uploadedRef, now)
              THEN /\ call' = call
                   /\ returned' = ProcessReturn(c, content,
                            Result(resolved.id, FALSE, FALSE, Lookup(uploadedRef, now)))
              ELSE /\ call' = [call EXCEPT ![c] =
                            [IdleCall EXCEPT !.pc = "uploading", !.content = content,
                                             !.referenceImageId = resolved.id,
                                             !.isExpired = IsExpiredFlag(uploadedRef),
                                             !.seen = Lookup(uploadedRef, now)]]
                   /\ returned' = NoReturn
    /\ UNCHANGED <<now, uploadedReferenceImages>>

\* uploadToReplicate returned: the upload record is stored and the call returns.
UploadReturn(c) ==
    /\ call[c].pc = "uploading"
    /\ uploadedReferenceImages' = CreateUploadedReferenceImage(uploadedReferenceImages,
            call[c].referenceImageId, now + ValidityHours)
    /\ returned' = ProcessReturn(c, call[c].content,
            Result(call[c].referenceImageId, call[c].isExpired, TRUE, call[c].seen))
    /\ call' = [call EXCEPT ![c] = IdleCall]
    /\ UNCHANGED <<now, referenceImages>>

\* What the caller of processReferenceImage gets when the call throws.
ProcessThrow(c, content) ==
    [NoReturn EXCEPT !.caller = c, !.op = "processReferenceImageError", !.content = content]

\* A plausible slip: the upload record is stored before the response is
\* found to be an error.
AfterFailedUploadMutant(uploads, id, t) == CreateUploadedReferenceImage(uploads, id, t)

\* The upload records after uploadToReplicate threw: createUploadedReferenceImage
\* is not reached.
AfterFailedUpload(uploads, id, t) == uploads

\* uploadToReplicate threw: the error propagates, nothing is recorded.
UploadThrow(c) ==
    /\ call[c].pc = "uploading"
    /\ uploadedReferenceImages' =
            AfterFailedUpload(uploadedReferenceImages, call[c].referenceImageId, now)
    /\ call' = [call EXCEPT ![c] = IdleCall]
    /\ returned' = ProcessThrow(c, call[c].content)
    /\ UNCHANGED <<now, referenceImages>>

(***************************************************************************)
(* ensureExistingReferenceImages.  The route calls it in the request that  *)
(* has finished its processReferenceImages call, so a caller is in one or  *)
(* the other.                                                              *)
(***************************************************************************)
\* The id lists a request may send; id 2 may name a row that does not exist.
EnsureRequests == {<<1>>, <<2>>, <<1, 1>>, <<2, 1>>}

\* The loop from item i on, up to its next await: ids without a row are
\* skipped, valid uploads are reused, and at the first image that needs an
\* upload the existence of its original file is awaited.  `skipped` notes
\* the positions of the list passed over so far, and why.
RECURSIVE EnsureLoop(_, _, _, _, _)
\* A plausible slip: the loop ends where it should go on to the next id.
EnsureLoopMutant(ids, i, results, skipped, uploads) ==
    [IdleCall EXCEPT !.pc = "return", !.ids = ids, !.results = results, !.skipped = skipped]

EnsureLoop(ids, i, results, skipped, uploads) ==
    IF i > Len(ids)
    THEN [IdleCall EXCEPT !.pc = "return", !.ids = ids, !.results = results,
                          !.skipped = skipped]
    ELSE LET refImage == GetReferenceImage(referenceImages, ids[i])
             uploadedRef == GetUploadedReferenceImage(uploads, refImage)
         IN  IF refImage = NoId
             THEN EnsureLoop(ids, i + 1, results, skipped \cup {<<i, "noRecord">>}, uploads)
             ELSE IF HasValidUpload(uploadedRef, now)
             THEN EnsureLoop(ids, i + 1,
                     Append(results, Result(refImage, FALSE, FALSE, Lookup(uploadedRef, now))),
                     skipped, uploads)
             ELSE [IdleCall EXCEPT !.pc = "checkFile", !.ids = ids, !.idx = i,
                                   !.results = results, !.skipped = skipped,
                                   !.referenceImageId = refImage,
                                   !.isExpired = IsExpiredFlag(uploadedRef),
                                   !.seen = Lookup(uploadedRef, now)]

\* The loop ran from item i on: the call awaits a file, or it has returned.
EnsureStep(c, ids, i, results, skipped, uploads) ==
    LET after == EnsureLoop(ids, i, results, skipped, uploads) IN
    IF after.pc = "return"
    THEN /\ call' = [call EXCEPT ![c] = IdleCall]
         /\ returned' = [NoReturn EXCEPT !.caller = c,
                                         !.op = "ensureExistingReferenceImages",
                                         !.ids = ids, !.results = after.results,
                                         !.skipped = after.skipped]
    ELSE /\ call' = [call EXCEPT ![c] = after]
         /\ returned' = NoReturn

EnsureExistingReferenceImages(c, ids) ==
    /\ call[c].pc = "idle"
    /\ EnsureStep(c, ids, 1, <<>>, {}, uploadedReferenceImages)
    /\ UNCHANGED <<now, referenceImages, uploadedReferenceImages>>

\* The original file is gone: the image is skipped.
EnsureFileMissing(c) ==
    /\ call[c].pc = "checkFile"
    /\ EnsureStep(c, call[c].ids, call[c].idx + 1, call[c].results,
                  call[c].skipped \cup {<<call[c].idx, "noFile">>}, uploadedReferenceImages)
    /\ UNCHANGED <<now, referenceImages, uploadedReferenceImages>>

\* The original file is there and has been read: the upload request is sent.
EnsureFileFound(c) ==
    /\ call[c].pc = "checkFile"
    /\ call' = [call EXCEPT ![c].pc = "ensureUploading"]
    /\ returned' = NoReturn
    /\ UNCHANGED <<now, referenceImages, uploadedReferenceImages>>

\* uploadToReplicate returned: the upload record is stored, the result is
\* pushed and the loop goes on.
EnsureUploadReturn(c) ==
    /\ call[c].pc = "ensureUploading"
    /\ uploadedReferenceImages' = CreateUploadedReferenceImage(uploadedReferenceImages,
            call[c].referenceImageId, now + ValidityHours)
    /\ EnsureStep(c, call[c].ids, call[c].idx + 1,
            Append(call[c].results,
                   Result(call[c].referenceImageId, call[c].isExpired, TRUE, call[c].seen)),
            call[c].skipped, uploadedReferenceImages')
    /\ UNCHANGED <<now, referenceImages>>

\* uploadToReplicate threw: the error propagates out of the call.
EnsureUploadThrow(c) ==
    /\ call[c].pc = "ensureUploading"
    /\ call' = [call EXCEPT ![c] = IdleCall]
    /\ returned' = NoReturn
    /\ UNCHANGED <<now, referenceImages, uploadedReferenceImages>>

RefNext ==
    \/ Tick
    \/ \E c \in Callers, content \in Contents : ProcessReferenceImage(c, content)
    \/ \E c \in Callers : UploadReturn(c)
    \/ \E c \in Callers : UploadThrow(c)
    \/ \E c \in EnsureCallers, ids \in EnsureRequests : EnsureExistingReferenceImages(c, ids)
    \/ \E c \in EnsureCallers : EnsureFileMissing(c)
    \/ \E c \in EnsureCallers : EnsureFileFound(c)
    \/ \E c \in EnsureCallers : EnsureUploadReturn(c)
    \/ \E c \in EnsureCallers : EnsureUploadThrow(c)

Init == GenInit /\ RefInit

Next == GenNext /\ UNCHANGED refVars

Spec == Init /\ [][Next]_vars

\* The request that created the batch goes on in the route: the await on
\* the reference images resolves or rejects, and on resolution the route
\* invokes startGeneration.
RouteContinues ==
    /\ routePc = "references"
    /\ StartGeneration \/ ReferenceProcessingThrow
    /\ UNCHANGED refVars

LiveSpec == Spec /\ WF_vars(RouteContinues)

RefSpec == Init /\ [][RefNext /\ UNCHANGED genVars]_vars

(***************************************************************************)
(* Vocabulary of the claims.                                               *)
(***************************************************************************)
\* The job rows of the batch.
JobRows == {p \in Pids : predictionJobs[p] # NoJob}

NonTerminalStatuses == {"starting", "processing"}

TerminalBatchStatuses == {"completed", "failed"}

\* This step ran the aggregator (checkBatchCompletion) once.
AggregatorRan == aggCalls' = aggCalls + 1

\* No call of the service is in flight for the batch: startGeneration has
\* returned or thrown, every poll loop has ended, no cancel is under way.
Quiescent ==
    /\ startPc \in {"done", "lookupFailed", "submitFailed"}
    /\ \A p \in Pids : pollPc[p] \in {"none", "nojob", "done"}
    /\ cancelPc # "cancel"

(***************************************************************************)
(* C1.  Whenever the aggregator runs for a batch none of whose jobs is     *)
(* still starting or processing, the batch becomes 'completed' if at       *)
(* least one job succeeded and otherwise 'failed' with "All image          *)
(* generations failed".  (As claimed; violated, because a row with status  *)
(* 'aborted' is counted as processing.)                                    *)
(***************************************************************************)
C1_AggregatorDecides ==
    [][(AggregatorRan /\ \A p \in Pids : predictionJobs'[p].status \notin NonTerminalStatuses)
        => IF \E p \in Pids : predictionJobs'[p].status = "succeeded"
           THEN batch'.status = "completed"
           ELSE batch'.status = "failed" /\ batch'.error_message = AllFailedMessage]_vars

(***************************************************************************)
(* C2.  An aggregator run that finds a job row of the batch still          *)
(* starting or processing leaves the batch row as it was: status (so a     *)
(* processing batch stays processing) and error message.                   *)
(***************************************************************************)
C2_NoTransitionWhileJobActive ==
    [][(AggregatorRan /\ \E p \in Pids : predictionJobs'[p].status \in NonTerminalStatuses)
        => batch' = batch]_vars

\* One job's loop has ended with 'succeeded' (the aggregator ran), a sibling
\* is still processing with its loop running, and the batch is processing.
C2_Witness ==
    /\ batch.status = "processing"
    /\ \E p, q \in Pids :
        /\ pollPc[p] = "done" /\ predictionJobs[p].status = "succeeded"
        /\ pollPc[q] \in {"fetch", "sleep"} /\ predictionJobs[q].status = "processing"

C4_BatchFinalized ==
    (Quiescent /\ startPc = "done")
        => /\ batch.status \in TerminalBatchStatuses
           /\ \A p \in JobRows : predictionJobs[p].status \notin NonTerminalStatuses

(***************************************************************************)
(* C5 as claimed: when a cancelGeneration call that found active jobs      *)
(* returns, every job it found active is 'canceled' and out of             *)
(* activeJobs, and the batch is 'failed' with "Generation canceled by      *)
(* user".  Violated: the poll loop of a job already canceled, still        *)
(* running, rewrites the job's row while the next remote cancel is awaited. *)
(***************************************************************************)
C5_CancelPostcondition ==
    [][(CancelReturn /\ Tail(cancelQueue) = <<>>)
        => /\ \A p \in cancelSnapshot :
                predictionJobs'[p].status = "canceled" /\ p \notin activeJobs'
           /\ batch'.status = "failed"
           /\ batch'.error_message = CanceledMessage]_vars

(***************************************************************************)
(* C6 as claimed: an aggregator run on a batch that is already             *)
(* 'completed' or 'failed' leaves its status and error message unchanged.  *)
(* Violated: checkBatchCompletion does not look at the batch's status, so  *)
(* after a cancel the ending poll loops overwrite the batch row.           *)
(***************************************************************************)
C6_AggregatorIdempotent ==
    [][(AggregatorRan /\ batch.status \in TerminalBatchStatuses)
        => /\ batch'.status = batch.status
           /\ batch'.error_message = batch.error_message]_vars

(***************************************************************************)
(* Vocabulary of the reference image claims.                               *)
(***************************************************************************)
\* The results the step just taken has returned.
ReturnedResults == {returned.results[i] : i \in 1..Len(returned.results)}

\* The results an ensureExistingReferenceImages call in flight has pushed.
PushedResults == UNION {{call[c].results[i] : i \in 1..Len(call[c].results)} : c \in Callers}

\* The call has decided to upload and has not returned yet.
Uploading(c) == call[c].pc \in {"uploading", "checkFile", "ensureUploading"}

\* Validity as stated: a record exists and more than 4 hours are left.
StatedValid(seen) == seen.hadRecord /\ seen.hoursLeft > 4

(***************************************************************************)
(* C7 as claimed: two concurrent processReferenceImage calls for the same  *)
(* content make one upload request between them, so two upload requests    *)
(* for one content hash are never in flight together.  Violated: nothing   *)
(* serializes the calls; each finds no valid upload and sends its own.     *)
(***************************************************************************)
C7_SingleUploadPerHash ==
    \A c, d \in Callers :
        (/\ c # d
         /\ call[c].pc = "uploading"
         /\ call[d].pc = "uploading")
            => CalculateFileHash(call[c].content) # CalculateFileHash(call[d].content)

(***************************************************************************)
(* C8.  In every step the reference image rows there are stay as they      *)
(* are, no two rows carry the same content hash, and a                     *)
(* processReferenceImage call that returns, returns the id of the row      *)
(* carrying the hash of its content, whatever its filename: so identical   *)
(* content always resolves to one and the same id.                         *)
(***************************************************************************)
C8_OneReferenceImagePerContent ==
    [][/\ Len(referenceImages') >= Len(referenceImages)
       /\ \A i \in 1..Len(referenceImages) : referenceImages'[i] = referenceImages[i]
       /\ \A i, j \in 1..Len(referenceImages') :
            referenceImages'[i].file_hash_sha256 = referenceImages'[j].file_hash_sha256
                => i = j
       /\ \A c \in Callers : call'[c].pc = "uploading" =>
            /\ call'[c].referenceImageId \in 1..Len(referenceImages')
            /\ referenceImages'[call'[c].referenceImageId].file_hash_sha256
                    = CalculateFileHash(call'[c].content)
       /\ returned'.op = "processReferenceImage" =>
            \A r \in {returned'.results[i] : i \in 1..Len(returned'.results)} :
                /\ r.referenceImageId \in 1..Len(referenceImages')
                /\ referenceImages'[r.referenceImageId].file_hash_sha256
                        = CalculateFileHash(returned'.content)]_vars

\* Caller 2 is returned the id of the row that caller 1 created for the
\* same content under its own filename.
C8_Witness ==
    /\ returned.op = "processReferenceImage"
    /\ returned.caller = 2
    /\ \E r \in ReturnedResults :
        /\ r.referenceImageId \in 1..Len(referenceImages)
        /\ referenceImages[r.referenceImageId].filename = FilenameOf(1)
        /\ FilenameOf(1) # FilenameOf(2)

(***************************************************************************)
(* C9.  A call of processReferenceImage or ensureExistingReferenceImages   *)
(* reuses the upload record it looked up exactly when there was one with   *)
(* more than 4 hours left; with 4 hours or less left, or without a         *)
(* record, it sets out to upload (ensureExistingReferenceImages skips the  *)
(* image instead when its original file is gone).                          *)
(***************************************************************************)
C9_ValidIffMoreThanFourHours ==
    /\ \A c \in Callers : Uploading(c) => ~StatedValid(call[c].seen)
    /\ \A r \in ReturnedResults \cup PushedResults : r.uploaded <=> ~StatedValid(r.seen)

\* An ensureExistingReferenceImages call returns having re-uploaded an
\* image whose upload had exactly 4 hours left and reused an upload with
\* more than 4 hours left.
C9_Witness ==
    /\ returned.op = "ensureExistingReferenceImages"
    /\ \E r \in ReturnedResults : r.uploaded /\ r.seen.hadRecord /\ r.seen.hoursLeft = 4
    /\ \E r \in ReturnedResults : ~r.uploaded /\ r.seen.hadRecord /\ r.seen.hoursLeft > 4

(***************************************************************************)
(* C10 as claimed: the flag isExpired of a result is true exactly when     *)
(* the call uploaded and recorded a new upload, whether it had found an    *)
(* invalid record or none.  Violated: the flag is false for the first      *)
(* upload of a reference image.                                            *)
(***************************************************************************)
C10_FlagIffUploaded ==
    \A r \in ReturnedResults \cup PushedResults : r.isExpired <=> r.uploaded

(***************************************************************************)
(* C10 as amended: the flag isExpired of a result is true exactly when     *)
(* the call uploaded and recorded a new upload in place of an upload       *)
(* record it had found invalid; it is false when a valid upload was        *)
(* reused and when the call made the reference image's first upload.       *)
(***************************************************************************)
C10_FlagIffReplacedUpload ==
    \A r \in ReturnedResults \cup PushedResults :
        /\ r.isExpired <=> (r.uploaded /\ r.seen.hadRecord)
        /\ ~r.uploaded => (r.seen.hadRecord /\ ~r.isExpired)

\* A processReferenceImage call returns with the flag set, having replaced
\* an upload record that was no longer valid.
C10_Witness ==
    /\ returned.op = "processReferenceImage"
    /\ \E r \in ReturnedResults : r.isExpired /\ r.uploaded /\ r.seen.hadRecord

(***************************************************************************)
(* C11.  A startGeneration call on a batch that does not exist or is not   *)
(* pending throws before anything is submitted: no job row is made, no     *)
(* job is tracked, no poll loop starts and the submission loop of an       *)
(* earlier call is where it was; a batch that exists is written 'failed'   *)
(* with the message of the error thrown (for a batch that does not exist   *)
(* there is no row to write).                                              *)
(***************************************************************************)
C11_RejectedStartFailsBatch ==
    [][((StartGeneration \/ StartGenerationRejected) /\ batch.status # "pending")
        => /\ UNCHANGED <<predictionJobs, activeJobs, startPc, startI, startJobs, pollPc>>
           /\ IF batch.status = "absent"
              THEN batch' = batch
              ELSE /\ batch'.status = "failed"
                   /\ batch'.error_message = NotPendingMessage
                   /\ batch'.batch_size = batch.batch_size]_vars

\* A second startGeneration call was rejected while the jobs of the first
\* are being polled: the batch reads 'failed' with the rejection's message.
C11_Witness ==
    /\ batch.status = "failed"
    /\ batch.error_message = NotPendingMessage
    /\ startPc = "done"
    /\ \E p \in Pids : pollPc[p] \in {"fetch", "sleep"}

C13_IngestionFailureFailsJob ==
    \A p \in Pids :
        (pollPc[p] = "done" /\ predictionJobs[p].status = "succeeded") => p \in images

(***************************************************************************)
(* C14 as claimed: when a job's poll budget elapses, its row is written    *)
(* 'timed_out', and the aggregator run that follows counts as processing   *)
(* only the rows that are starting or processing.  Violated: the timeout   *)
(* is only logged, the row keeps its last status and still counts as       *)
(* processing.                                                             *)
(***************************************************************************)
C14_TimeoutMarksTimedOut ==
    [][\A p \in Pids : PollTimeout(p)
        => /\ predictionJobs'[p].status = "timed_out"
           /\ GetBatchProgress(predictionJobs').processing
                = Cardinality({q \in Pids : predictionJobs'[q].status \in NonTerminalStatuses})]_vars

(***************************************************************************)
(* C15.  A cancelGeneration call made while no job is in activeJobs        *)
(* throws 'No active generation found': no remote cancel is requested,     *)
(* and the batch row, the job rows, activeJobs and the poll loops are as   *)
(* they were.                                                              *)
(***************************************************************************)
C15_CancelWithoutActiveJobs ==
    [][((CancelGeneration \/ CancelGenerationRejected) /\ activeJobs = {})
        => /\ cancelPc' = "rejected"
           /\ cancelQueue' = <<>>
           /\ UNCHANGED <<batch, predictionJobs, activeJobs, pollPc, images, aggCalls>>]_vars

\* A cancel was rejected after the batch had completed.
C15_Witness ==
    /\ cancelPc = "rejected"
    /\ batch.status = "completed"
    /\ activeJobs = {}
    /\ JobRows # {}

(***************************************************************************)
(* C16.  What ensureExistingReferenceImages returns holds, in the order    *)
(* of the list it was given, one result for every position of the list     *)
(* that was not passed over for want of a row or of the original file,     *)
(* each carrying that position's id and an upload that was reused as       *)
(* valid or made anew; passing over a position raises no error.            *)
(***************************************************************************)
RECURSIVE KeptIds(_, _, _)
KeptIds(ids, skippedPositions, i) ==
    IF i > Len(ids) THEN <<>>
    ELSE (IF i \in skippedPositions THEN <<>> ELSE <<ids[i]>>)
            \o KeptIds(ids, skippedPositions, i + 1)

C16_EnsureSkipsUnretrievable ==
    returned.op = "ensureExistingReferenceImages"
        => /\ [k \in 1..Len(returned.results) |-> returned.results[k].referenceImageId]
                = KeptIds(returned.ids, {s[1] : s \in returned.skipped}, 1)
           /\ \A r \in ReturnedResults : r.uploaded \/ StatedValid(r.seen)

\* A call given the same id twice found the original file gone at the
\* first position and returns the result of the second.
C16_Witness ==
    /\ returned.op = "ensureExistingReferenceImages"
    /\ <<1, "noFile">> \in returned.skipped
    /\ Len(returned.results) = 1
    /\ Len(returned.ids) = 2

(***************************************************************************)
(* C17.  A batch-creation request whose batchSize is not an integer from   *)
(* 1 to 8 is answered with a validation error, and the step creates no     *)
(* batch row and no job row, tracks no job and starts no submission.       *)
(***************************************************************************)
C17_InvalidSizeRejected ==
    [][\A v \in BatchSizeInputs :
        ((CreateBatch(v) \/ CreateBatchRejected(v))
            /\ ~(v.half = 0 /\ v.whole >= 1 /\ v.whole <= 8))
        => /\ response' = "validationError"
           /\ UNCHANGED <<batch, predictionJobs, activeJobs, startPc, startI, startJobs,
                          pollPc>>]_vars

\* A request was refused before any batch was created.
C17_Witness ==
    /\ response = "validationError"
    /\ batch = NoBatch
    /\ JobRows = {}

(***************************************************************************)
(* C18 as claimed: once a batch has job rows, its status is what the       *)
(* aggregation rule makes of their statuses (processing while a job is     *)
(* starting or processing, else completed if a job succeeded, else         *)
(* failed), and after the batch has left 'pending' only a run of the       *)
(* aggregator changes its status.  Violated: startGeneration's catch       *)
(* block and cancelGeneration write 'failed' themselves, whatever the job  *)
(* rows say.                                                               *)
(***************************************************************************)
StatedAggregation(jobs) ==
    IF \E p \in Pids : jobs[p].status \in NonTerminalStatuses THEN "processing"
    ELSE IF \E p \in Pids : jobs[p].status = "succeeded" THEN "completed"
    ELSE "failed"

C18_StatusFromJobsOnly ==
    [][/\ (\E p \in Pids : predictionJobs'[p] # NoJob)
            => batch'.status = StatedAggregation(predictionJobs')
       /\ (batch'.status # batch.status /\ batch.status \notin {"absent", "pending"})
            => AggregatorRan]_vars

(***************************************************************************)
(* C19 as claimed: getBatchProgress counts every job row once: a           *)
(* 'succeeded' row as completed, a 'failed', 'canceled', 'aborted' or       *)
(* 'timed_out' row as failed, and only a 'starting' or 'processing' row    *)
(* as processing.  Violated: an 'aborted' row is counted as processing.    *)
(***************************************************************************)
C19_ThreeClasses ==
    LET progress == GetBatchProgress(predictionJobs)
        Rows(S) == Cardinality({p \in JobRows : predictionJobs[p].status \in S})
    IN  /\ progress.completed = Rows({"succeeded"})
        /\ progress.failed = Rows({"failed", "canceled", "aborted", "timed_out"})
        /\ progress.processing = Rows(NonTerminalStatuses)
        /\ progress.completed + progress.failed + progress.processing = Cardinality(JobRows)

\* The poll loop of job p ends in this step.
LoopEnds(p) == pollPc[p] \in {"fetch", "sleep", "ingest"} /\ pollPc'[p] = "done"

(***************************************************************************)
(* C20.  Every poll loop that ends, whichever way (a terminal remote       *)
(* status, the ingestion's outcome, the timeout, a throwing status check), *)
(* leaves its job out of activeJobs and runs the aggregator once in the    *)
(* same step; a loop that has ended never ends again, so the aggregator    *)
(* has run as many times as loops have ended; and the aggregator runs      *)
(* only in the step that ends a loop, whose job is then no longer in       *)
(* activeJobs.                                                             *)
(***************************************************************************)
C20_LoopEndNotifiesOnce ==
    [][/\ \A p \in Pids : LoopEnds(p) => p \notin activeJobs' /\ AggregatorRan
       /\ \A p \in Pids : pollPc[p] = "done" => pollPc'[p] = "done"
       /\ aggCalls' # aggCalls
            => AggregatorRan /\ \E p \in Pids : LoopEnds(p) /\ p \notin activeJobs'
       /\ aggCalls' = Cardinality({p \in Pids : pollPc'[p] = "done"})]_vars

\* Two loops have ended, one after a stored image and one on a remote
\* failure status; the aggregator has run twice and no job is active.
C20_Witness ==
    /\ activeJobs = {}
    /\ aggCalls = 2
    /\ \E p, q \in JobRows :
        /\ pollPc[p] = "done" /\ p \in images
        /\ pollPc[q] = "done" /\ predictionJobs[q].status \in RemoteFailureStatuses

\* The poll loop of job p is under way.
LoopRunning(p) == pollPc[p] \in {"fetch", "sleep", "ingest"}

\* Job p has left activeJobs while its poll loop is under way.  Only
\* cancelGeneration removes the job of a running loop: startGeneration's
\* catch block runs before any loop is started.
CanceledInFlight(p) == LoopRunning(p) /\ p \notin activeJobs

(***************************************************************************)
(* C21 as claimed: once cancelGeneration has removed a job from            *)
(* activeJobs, the job's poll loop requests no further status, writes the  *)
(* job row no more and, when it ends, leaves the batch row as it is.       *)
(* Violated: the loop reads activeJobs only at its entry, so it goes on    *)
(* polling and writing.                                                    *)
(***************************************************************************)
C21_LoopObservesCancel ==
    [][\A p \in Pids :
          CanceledInFlight(p)
            => /\ ~(pollPc[p] = "sleep" /\ pollPc'[p] = "fetch")
               /\ predictionJobs'[p] = predictionJobs[p]
               /\ LoopEnds(p) => batch' = batch]_vars

\* A cancelGeneration call that had jobs to cancel ends in this step, by
\* returning or by throwing.
CancelEnds == cancelPc = "cancel" /\ cancelPc' = "idle"

\* The jobs the call in flight has listed after the one whose remote
\* cancel is awaited.
CancelRest == {cancelQueue[k] : k \in 2..Len(cancelQueue)}

(***************************************************************************)
(* C22 as claimed: when a cancelGeneration call ends, even after the       *)
(* remote cancel of one job failed, every other job it listed has been     *)
(* written 'canceled' and has left activeJobs, and the batch is 'failed'   *)
(* with "Generation canceled by user".  Violated: the first failing        *)
(* remote cancel ends the loop and the call.                               *)
(***************************************************************************)
C22_CancelContinuesAfterFailure ==
    [][CancelEnds
        => /\ \A p \in CancelRest :
                p \notin activeJobs' /\ predictionJobs'[p].status = "canceled"
           /\ batch'.status = "failed"
           /\ batch'.error_message = CanceledMessage]_vars

\* The statuses a job row is meant to end in.
TerminalJobStatuses == {"succeeded", "failed", "canceled", "aborted", "timed_out"}

(***************************************************************************)
(* C23 as claimed: when a job's poll loop ends on an error (the status     *)
(* request throws, or the output cannot be ingested), the job row carries  *)
(* a terminal status that reports the failure, the poll loops of the       *)
(* other jobs stand where they stood, and once every loop has ended with   *)
(* some job succeeded and stored, the batch is 'completed'.  Violated:     *)
(* handleJobFailure writes nothing, so the row keeps 'starting' or         *)
(* 'processing' (or 'succeeded' without an image) and the aggregator       *)
(* counts the job as still active.                                         *)
(***************************************************************************)
C23_PollErrorContained ==
    [][\A p \in Pids :
          (LoopEnds(p) /\ pollPc[p] \in {"fetch", "ingest"})
            => /\ predictionJobs'[p].status \in TerminalJobStatuses
               /\ (predictionJobs'[p].status = "succeeded" => p \in images')
               /\ \A q \in Pids \ {p} : pollPc'[q] = pollPc[q]
               /\ ((\A q \in JobRows : pollPc'[q] = "done")
                      /\ (\E q \in JobRows : q \in images')
                      /\ cancelPc = "idle" /\ batch.status = "processing")
                    => batch'.status = "completed"]_vars

\* The accepted startGeneration call has ended in its catch block.
StartFailed == startPc \in {"lookupFailed", "submitFailed"}

(***************************************************************************)
(* C24.  When the reference URL lookup or a submission throws inside       *)
(* startGeneration, the same step writes the batch 'failed' with the       *)
(* error's message and leaves no job in activeJobs; no poll loop has been  *)
(* started, and from then on none is started, no job is active and the     *)
(* batch stays 'failed'.                                                   *)
(***************************************************************************)
C24_SubmissionErrorFailsBatch ==
    [][/\ (startPc = "lookup" /\ startPc' = "lookupFailed")
            => batch'.status = "failed" /\ batch'.error_message = LookupErrorMessage
       /\ (startPc = "submit" /\ startPc' = "submitFailed")
            => batch'.status = "failed" /\ batch'.error_message = SubmitErrorMessage
       /\ StartFailed'
            => /\ batch'.status = "failed"
               /\ activeJobs' = {}
               /\ \A p \in Pids : pollPc'[p] = "none"]_vars

\* A submission threw after an earlier one had created its job row: the
\* batch is failed, nothing is active and no loop was started.
C24_Witness ==
    /\ startPc = "submitFailed"
    /\ JobRows # {}
    /\ activeJobs = {}
    /\ batch.status = "failed"
    /\ \A p \in Pids : pollPc[p] = "none"

(***************************************************************************)
(* C25.  When the upload of processReferenceImage fails, the call ends in  *)
(* that step with the error and no result, it does not send the upload     *)
(* again, and the upload records are what they were: none is created, and  *)
(* the previous record of the image, if any, is unchanged.  An upload      *)
(* that was sent ends in a result or in the error, never silently.         *)
(***************************************************************************)
C25_UploadFailurePropagates ==
    [][/\ returned'.op = "processReferenceImageError"
            => /\ call[returned'.caller].pc = "uploading"
               /\ call'[returned'.caller].pc = "idle"
               /\ returned'.results = <<>>
               /\ uploadedReferenceImages' = uploadedReferenceImages
               /\ referenceImages' = referenceImages
       /\ \A c \in Callers :
            (call[c].pc = "uploading" /\ call'[c].pc # "uploading")
                => /\ returned'.caller = c
                   /\ returned'.op \in {"processReferenceImage", "processReferenceImageError"}]_vars

\* The upload that was to replace an expired record failed: the error is
\* returned and the expired record is still the image's record.
C25_Witness ==
    /\ returned.op = "processReferenceImageError"
    /\ \E u \in uploadedReferenceImages :
        /\ u.reference_image_id
             = GetReferenceImageByHash(referenceImages, CalculateFileHash(returned.content))
        /\ ~IsReplicateUploadValid(u.replicate_expires_at, now)

(***************************************************************************)
(* C26 as claimed: in the step that makes the batch 'completed', no job    *)
(* is left in activeJobs, no job is ingesting its output, and every job    *)
(* whose row reads 'succeeded' has its image stored.  Violated: the row    *)
(* is written 'succeeded' before the ingestion, so a sibling's loop that   *)
(* ends meanwhile completes the batch.                                     *)
(***************************************************************************)
C26_CompletedMeansStored ==
    [][(batch'.status = "completed" /\ batch.status # "completed")
        => /\ activeJobs' = {}
           /\ \A p \in Pids : pollPc'[p] # "ingest"
           /\ \A p \in JobRows : predictionJobs'[p].status = "succeeded" => p \in images']_vars

(***************************************************************************)
(* C27 as claimed: every job row whose status is 'starting' or             *)
(* 'processing' belongs to a job that is in activeJobs and either has a    *)
(* poll loop under way or is about to get one from the startGeneration     *)
(* call still submitting.  Violated: a failed submission, a timeout and a  *)
(* thrown status request all leave such rows behind.                       *)
(***************************************************************************)
C27_NoOrphanJobs ==
    \A p \in JobRows :
        predictionJobs[p].status \in NonTerminalStatuses
            => /\ p \in activeJobs
               /\ LoopRunning(p) \/ startPc = "submit"

(***************************************************************************)
(* C28 as claimed: a job row whose status is succeeded, failed, canceled,  *)
(* aborted or timed_out keeps that status in every later step.  Violated:  *)
(* a loop still polling after cancelGeneration overwrites 'canceled', and  *)
(* cancelGeneration overwrites 'succeeded'.                                *)
(***************************************************************************)
C28_TerminalStatusAbsorbing ==
    [][\A p \in Pids :
          predictionJobs[p].status \in TerminalJobStatuses
            => predictionJobs'[p].status = predictionJobs[p].status]_vars

(***************************************************************************)
(* C29.  However often startGeneration is invoked on a batch, and          *)
(* wherever an earlier invocation stands, only an invocation that finds    *)
(* the batch 'pending' goes on to submit, and it makes the batch           *)
(* 'processing' in the step that checks; the batch is never 'pending'      *)
(* again, so no second invocation submits: job rows are created only by    *)
(* the one submission loop, and never more than the batch size.            *)
(***************************************************************************)
C29_SingleSubmitter ==
    [][/\ (startPc' = "lookup" /\ startPc # "lookup")
            => /\ startPc = "idle"
               /\ batch.status = "pending"
               /\ batch'.status = "processing"
       /\ batch.status \notin {"absent", "pending"} => batch'.status # "pending"
       /\ \A p \in Pids :
            (predictionJobs[p] = NoJob /\ predictionJobs'[p] # NoJob)
                => /\ startPc = "submit"
                   /\ Cardinality({q \in Pids : predictionJobs'[q] # NoJob})
                        <= batch.batch_size]_vars

\* A second invocation has been rejected, and the first has submitted
\* every job of the batch, none more.
C29_Witness ==
    /\ batch.error_message = NotPendingMessage
    /\ startPc = "done"
    /\ batch.batch_size >= 2
    /\ Cardinality(JobRows) = batch.batch_size
    /\ \A p \in JobRows : predictionJobs[p].status = "starting"

(***************************************************************************)
(* C30 as claimed: a batch that is 'pending' eventually is so no more:     *)
(* the route that created it starts the generation or fails the batch.     *)
(* Violated: when processing the reference images throws, the route        *)
(* answers 500 and leaves the batch 'pending' for good.                    *)
(***************************************************************************)
C30_PendingEventuallyLeft == (batch.status = "pending") ~> (batch.status # "pending")

====
